---- MODULE Spec2Model ----
(***************************************************************************)
(* State-machine model of src/auth.py: the role registry, the User         *)
(* principal, the operations over the usuarios table, and the two          *)
(* authorization decorators.                                               *)
(*                                                                         *)
(* The usuarios table is the variable store, a function from the ids       *)
(* issued so far to rows.  Every operation of auth.py that runs one SQL    *)
(* statement is one action.  update_own_password runs a SELECT and later   *)
(* an UPDATE on its own connection, so it is two steps per thread and      *)
(* other calls may run between them.                                       *)
(***************************************************************************)
EXTENDS Integers, Sequences, FiniteSets, TLC

VARIABLES
    store,      \* usuarios: id -> row
    nextId,     \* next value of the id sequence of usuarios
    pending,    \* per thread: the update_own_password call in progress, if any
    open,       \* number of store connections opened and not yet closed
    created,    \* history: id -> the arguments of the create_user call that made
                \* it, kept while no call has changed its password, role or activo
    ret         \* what the last step returned or raised

vars == <<store, nextId, pending, open, created, ret>>

(***************************************************************************)
(* Bounds of the model.                                                    *)
(***************************************************************************)
MaxId == 2          \* ids the sequence may issue
NumThreads == 2     \* threads that may be inside update_own_password
MaxLeak == 1        \* store errors injected (each may leave a connection open)

Threads == 1..NumThreads
UserIds == 1..MaxId

\* Identifiers used as username and as email: auth.py validates neither, so
\* one user's username may be another user's email.
Idents == {"alice", "alice@x.com"}
Passwords == {"pw1", "wrong"}

None == [none |-> TRUE]

(***************************************************************************)
(* Role registry                                                           *)
(***************************************************************************)
ROLES ==
    [r \in {"viewer", "editor_v2", "editor", "admin"} |->
        CASE r = "viewer" ->
                [name |-> "Visualizador", permissions |-> <<"view">>]
          [] r = "editor_v2" ->
                [name |-> "Editor Simple", permissions |-> <<"view", "edit">>]
          [] r = "editor" ->
                [name |-> "Editor Full",
                 permissions |-> <<"view", "edit", "delete">>]
          [] r = "admin" ->
                [name |-> "Administrador",
                 permissions |-> <<"view", "edit", "delete",
                                   "manage_users", "view_audit">>]]

\* Python's `x in list`
InList(x, s) == \E i \in DOMAIN s : s[i] = x

(***************************************************************************)
(* class User                                                              *)
(***************************************************************************)
User(id, username, email, role) ==
    [id |-> id, username |-> username, email |-> email, role |-> role]

\* faulty variant: a role that is no key of ROLES gets the widest permission list
RolePermissionsFailOpen(role) ==
    IF role \in DOMAIN ROLES
        THEN ROLES[role].permissions
        ELSE ROLES["admin"].permissions

\* ROLES.get(self.role, {}).get('permissions', [])
RolePermissions(role) ==
    IF role \in DOMAIN ROLES THEN ROLES[role].permissions ELSE <<>>

has_permission(user, permission) ==
    InList(permission, RolePermissions(user.role))

get_role_name(user) ==
    IF user.role \in DOMAIN ROLES THEN ROLES[user.role].name ELSE "Desconocido"

(***************************************************************************)
(* werkzeug.security as auth.py uses it.  The salt is left out: whether a  *)
(* password verifies against a hash depends only on the password hashed.   *)
(***************************************************************************)
generate_password_hash(password) == <<"hash", password>>

check_password_hash(pwhash, password) == pwhash = <<"hash", password>>

(***************************************************************************)
(* The SQL statements                                                      *)
(***************************************************************************)
\* a row as INSERT INTO usuarios (...) VALUES (%s, %s, %s, %s, true) makes it
NewRow(username, email, password_hash, role) ==
    [username |-> username, email |-> email, password_hash |-> password_hash,
     role |-> role, activo |-> TRUE, last_login |-> "NULL"]

\* the uniqueness constraints of usuarios that raise psycopg2.IntegrityError
IntegrityError(username, email) ==
    \E id \in DOMAIN store :
        store[id].username = username \/ store[id].email = email

\* faulty variant: the query matches the username only
AuthMatchesUsernameOnly(username_or_email) ==
    {id \in DOMAIN store :
        store[id].username = username_or_email /\ store[id].activo}

\* WHERE (username = %s OR email = %s) AND activo = true
AuthMatches(username_or_email) ==
    {id \in DOMAIN store :
        /\ store[id].username = username_or_email
           \/ store[id].email = username_or_email
        /\ store[id].activo}

\* SELECT id, username, email, role FROM usuarios WHERE id = %s, then the
\* principal load_user builds from the row
LoadUserResult(user_id) ==
    IF user_id \in DOMAIN store
        THEN User(user_id, store[user_id].username, store[user_id].email,
                  store[user_id].role)
        ELSE None

\* UPDATE usuarios SET <column> = <value> WHERE id = %s
UpdateRow(user_id, column, value) ==
    IF user_id \in DOMAIN store
        THEN [store EXCEPT ![user_id] = [@ EXCEPT ![column] = value]]
        ELSE store

\* the history forgets a row once a call changes it
Forget(user_id) == [id \in DOMAIN created \ {user_id} |-> created[id]]

InProgress == Cardinality({t \in Threads : pending[t] # None})

\* connections left open by calls that have already exited
Leaked == open - InProgress

\* a store error (psycopg2.OperationalError and the like) may be raised by
\* execute, fetchone or commit; the model injects at most MaxLeak of them
MayFail(fault) == fault = "none" \/ Leaked < MaxLeak

Raised(op, fault) == [op |-> op, raised |-> "StoreError", at |-> fault]

\* an operation without try/finally on which the store raises: the
\* exception leaves the function before cur.close() and conn.close()
StoreErrorExit(op, fault) ==
    /\ fault # "none"
    /\ open' = open + 1
    /\ ret' = Raised(op, fault)
    /\ UNCHANGED <<store, nextId, pending, created>>

Init ==
    /\ store = <<>>
    /\ nextId = 1
    /\ pending = [t \in Threads |-> None]
    /\ open = 0
    /\ created = <<>>
    /\ ret = [op |-> "init"]

(***************************************************************************)
(* Operations over the store                                               *)
(***************************************************************************)
load_user(user_id, fault) ==
    /\ MayFail(fault)
    /\ \/ StoreErrorExit("load_user", fault)
       \/ /\ fault = "none"
          /\ ret' = [op |-> "load_user", user_id |-> user_id,
                     result |-> LoadUserResult(user_id)]
          /\ UNCHANGED <<store, nextId, pending, open, created>>

\* What authenticate_user returns when fetchone hands it row `id` of the
\* matching rows
AuthRowResult(id, password) ==
    IF check_password_hash(store[id].password_hash, password)
        THEN User(id, store[id].username, store[id].email, store[id].role)
        ELSE None

authenticate_user(username_or_email, password, fault) ==
    /\ MayFail(fault)
    /\ \/ StoreErrorExit("authenticate_user", fault)
       \/ /\ fault = "none"
          /\ \/ /\ AuthMatches(username_or_email) = {}
                /\ ret' = [op |-> "authenticate_user",
                           username_or_email |-> username_or_email,
                           password |-> password, result |-> None]
             \* the query has no ORDER BY: fetchone returns any matching row
             \/ \E id \in AuthMatches(username_or_email) :
                    ret' = [op |-> "authenticate_user",
                            username_or_email |-> username_or_email,
                            password |-> password,
                            result |-> AuthRowResult(id, password)]
          /\ UNCHANGED <<store, nextId, pending, open, created>>

CreateRet(username, email, password, role, raised, result) ==
    [op |-> "create_user", username |-> username, email |-> email,
     password |-> password, role |-> role, raised |-> raised,
     result |-> result]

\* faulty variant: the role is written without being looked up in ROLES
RoleIsValidUnchecked(role) == TRUE

\* `if role not in ROLES: raise ValueError(...)`
RoleIsValid(role) == role \in DOMAIN ROLES

create_user(username, email, password, role, fault) ==
    \/ /\ ~RoleIsValid(role)
       /\ fault = "none"
       /\ ret' = CreateRet(username, email, password, role,
                           "ValueError: Rol invalido", None)
       /\ UNCHANGED <<store, nextId, pending, open, created>>
    \/ /\ RoleIsValid(role)
       /\ nextId <= MaxId
       /\ MayFail(fault)
       /\ \/ StoreErrorExit("create_user", fault)
          \/ /\ fault = "none"
             /\ IntegrityError(username, email)
             \* except psycopg2.IntegrityError: rollback, close, raise
             /\ ret' = CreateRet(username, email, password, role,
                                 "ValueError: El username o email ya existe",
                                 None)
             /\ UNCHANGED <<store, nextId, pending, open, created>>
          \/ /\ fault = "none"
             /\ ~IntegrityError(username, email)
             /\ store' = (nextId :>
                            NewRow(username, email,
                                   generate_password_hash(password), role))
                         @@ store
             /\ nextId' = nextId + 1
             /\ created' = (nextId :> [username |-> username, email |-> email,
                                       password |-> password, role |-> role])
                           @@ created
             /\ ret' = CreateRet(username, email, password, role, "none",
                                 nextId)
             /\ UNCHANGED <<pending, open>>

update_user_password(user_id, new_password, fault) ==
    /\ MayFail(fault)
    /\ \/ StoreErrorExit("update_user_password", fault)
       \/ /\ fault = "none"
          /\ store' = UpdateRow(user_id, "password_hash",
                                generate_password_hash(new_password))
          /\ created' = Forget(user_id)
          /\ ret' = [op |-> "update_user_password", user_id |-> user_id,
                     raised |-> "none"]
          /\ UNCHANGED <<nextId, pending, open>>

\* SELECT id, username, email, role, activo, created_at, last_login
ProfileRow(id) ==
    [id |-> id, username |-> store[id].username, email |-> store[id].email,
     role |-> store[id].role, activo |-> store[id].activo,
     last_login |-> store[id].last_login]

\* ORDER BY created_at DESC: ids are issued in creation order, so the
\* newest row is the one with the largest id
RECURSIVE NewestFirst(_)
NewestFirst(ids) ==
    IF ids = {} THEN <<>>
    ELSE LET m == CHOOSE i \in ids : \A j \in ids : j <= i
         IN  <<ProfileRow(m)>> \o NewestFirst(ids \ {m})

get_all_users(fault) ==
    /\ MayFail(fault)
    /\ \/ StoreErrorExit("get_all_users", fault)
       \/ /\ fault = "none"
          /\ ret' = [op |-> "get_all_users",
                     result |-> NewestFirst(DOMAIN store)]
          /\ UNCHANGED <<store, nextId, pending, open, created>>

toggle_user_status(user_id, fault) ==
    /\ MayFail(fault)
    /\ \/ StoreErrorExit("toggle_user_status", fault)
       \/ /\ fault = "none"
          /\ store' = IF user_id \in DOMAIN store
                         THEN UpdateRow(user_id, "activo",
                                        ~store[user_id].activo)
                         ELSE store
          /\ created' = Forget(user_id)
          /\ ret' = [op |-> "toggle_user_status", user_id |-> user_id,
                     raised |-> "none"]
          /\ UNCHANGED <<nextId, pending, open>>

update_user_role(user_id, new_role, fault) ==
    \/ /\ ~RoleIsValid(new_role)
       /\ fault = "none"
       /\ ret' = [op |-> "update_user_role", user_id |-> user_id,
                  new_role |-> new_role,
                  raised |-> "ValueError: Rol invalido"]
       /\ UNCHANGED <<store, nextId, pending, open, created>>
    \/ /\ RoleIsValid(new_role)
       /\ MayFail(fault)
       /\ \/ StoreErrorExit("update_user_role", fault)
          \/ /\ fault = "none"
             /\ store' = UpdateRow(user_id, "role", new_role)
             /\ created' = IF user_id \in DOMAIN store
                              /\ store[user_id].role # new_role
                              THEN Forget(user_id) ELSE created
             /\ ret' = [op |-> "update_user_role", user_id |-> user_id,
                        new_role |-> new_role, raised |-> "none"]
             /\ UNCHANGED <<nextId, pending, open>>

update_last_login(user_id, fault) ==
    /\ MayFail(fault)
    /\ \/ StoreErrorExit("update_last_login", fault)
       \/ /\ fault = "none"
          /\ store' = UpdateRow(user_id, "last_login", "CURRENT_TIMESTAMP")
          /\ ret' = [op |-> "update_last_login", user_id |-> user_id,
                     raised |-> "none"]
          /\ UNCHANGED <<nextId, pending, open, created>>

get_user_profile(user_id, fault) ==
    /\ MayFail(fault)
    /\ \/ StoreErrorExit("get_user_profile", fault)
       \/ /\ fault = "none"
          /\ ret' = [op |-> "get_user_profile", user_id |-> user_id,
                     result |-> IF user_id \in DOMAIN store
                                   THEN ProfileRow(user_id) ELSE None]
          /\ UNCHANGED <<store, nextId, pending, open, created>>

(***************************************************************************)
(* update_own_password: the SELECT and the checks, then the UPDATE         *)
(***************************************************************************)
OwnRet(step, user_id, current_password, new_password, raised) ==
    [op |-> "update_own_password", step |-> step, user_id |-> user_id,
     current_password |-> current_password, new_password |-> new_password,
     raised |-> raised]

\* `if not check_password_hash(user_data['password_hash'], current_password)`
CurrentPasswordOk(user_id, current_password) ==
    check_password_hash(store[user_id].password_hash, current_password)

update_own_password_select(t, user_id, current_password, new_password, fault) ==
    /\ pending[t] = None
    /\ MayFail(fault)
    /\ \/ StoreErrorExit("update_own_password", fault)
       \/ /\ fault = "none"
          /\ user_id \notin DOMAIN store
          /\ ret' = OwnRet("select", user_id, current_password, new_password,
                           "ValueError: Usuario no encontrado")
          /\ UNCHANGED <<store, nextId, pending, open, created>>
       \/ /\ fault = "none"
          /\ user_id \in DOMAIN store
          /\ ~CurrentPasswordOk(user_id, current_password)
          /\ ret' = OwnRet("select", user_id, current_password, new_password,
                           "ValueError: Contrasena actual incorrecta")
          /\ UNCHANGED <<store, nextId, pending, open, created>>
       \/ /\ fault = "none"
          /\ user_id \in DOMAIN store
          /\ CurrentPasswordOk(user_id, current_password)
          /\ pending' = [pending EXCEPT ![t] =
                            [user_id |-> user_id,
                             current_password |-> current_password,
                             new_password |-> new_password]]
          /\ open' = open + 1
          \* the call goes on to its UPDATE
          /\ ret' = OwnRet("select", user_id, current_password, new_password,
                           "none")
          /\ UNCHANGED <<store, nextId, created>>

update_own_password_update(t, fault) ==
    /\ pending[t] # None
    /\ MayFail(fault)
    /\ pending' = [pending EXCEPT ![t] = None]
    /\ \/ /\ fault # "none"
          \* the connection opened by the first step stays open
          /\ ret' = Raised("update_own_password", fault)
          /\ UNCHANGED <<store, nextId, open, created>>
       \/ /\ fault = "none"
          /\ store' = UpdateRow(pending[t].user_id, "password_hash",
                                generate_password_hash(pending[t].new_password))
          /\ open' = open - 1
          /\ created' = Forget(pending[t].user_id)
          \* return True
          /\ ret' = OwnRet("update", pending[t].user_id,
                           pending[t].current_password,
                           pending[t].new_password, "none")
          /\ UNCHANGED nextId

(***************************************************************************)
(* flask_login as auth.py uses it: current_user is the principal that      *)
(* load_user returns for the id held by the session, and the anonymous     *)
(* user when the session holds no id or load_user returns None.            *)
(***************************************************************************)
Anonymous == [anonymous |-> TRUE]

Session(user_id) == [user_id |-> user_id]

current_user(session) ==
    IF session = None \/ LoadUserResult(session.user_id) = None
        THEN Anonymous
        ELSE LoadUserResult(session.user_id)

is_authenticated(user) == user # Anonymous

\* faulty variant: the decorated function runs without @login_required, and the
\* anonymous user has neither has_permission nor role
login_required_missing(user, inner) ==
    IF ~is_authenticated(user)
        THEN [events |-> <<"current_user">>, outcome |-> "AttributeError",
              flash |-> None, result |-> None]
        ELSE inner

\* @login_required: the wrapped function runs only for an authenticated
\* current_user; otherwise login_manager.unauthorized() answers
login_required(user, inner) ==
    IF ~is_authenticated(user)
        THEN [events |-> <<"login_required">>, outcome |-> "unauthorized",
              flash |-> None, result |-> [redirect |-> "login"]]
        ELSE [inner EXCEPT !.events = <<"login_required">> \o @]

\* redirect(url_for('index')) after flash(message, 'error')
Denied(event, message) ==
    [events |-> <<event>>, outcome |-> "denied",
     flash |-> [message |-> message, category |-> "error"],
     result |-> [redirect |-> "index"]]

\* return f(*args, **kwargs)
Invoked(event, value) ==
    [events |-> <<event, "f">>, outcome |-> "invoked", flash |-> None,
     result |-> value]

\* faulty variant: the view runs whatever has_permission answers
permission_required_unchecked(permission, user, value) ==
    login_required(user, Invoked("has_permission", value))

\* decorated_function of permission_required, under @login_required
permission_required(permission, user, value) ==
    login_required(user,
        IF ~has_permission(user, permission)
            THEN Denied("has_permission",
                        <<"No tienes permiso para realizar esta accion. Se requiere: ",
                          permission>>)
            ELSE Invoked("has_permission", value))

\* faulty variant: no pass for admin
RoleMismatchNoAdmin(user, role) == user.role # role

\* `current_user.role != role and current_user.role != 'admin'`
RoleMismatch(user, role) == user.role # role /\ user.role # "admin"

\* decorated_function of role_required, under @login_required
role_required(role, user, value) ==
    login_required(user,
        IF RoleMismatch(user, role)
            THEN IF role \in DOMAIN ROLES
                    THEN Denied("role",
                                <<"Se requiere rol de ", ROLES[role].name>>)
                    \* ROLES[role] of a role that is no key of ROLES
                    ELSE [events |-> <<"role">>, outcome |-> "KeyError",
                          flash |-> None, result |-> None]
            ELSE Invoked("role", value))

\* a request to a view wrapped by @permission_required(permission)
PermissionRequest(session, permission, value) ==
    /\ ret' = [op |-> "permission_required", arg |-> permission,
               user |-> current_user(session),
               value |-> value,
               call |-> permission_required(permission,
                                            current_user(session), value)]
    /\ UNCHANGED <<store, nextId, pending, open, created>>

\* a request to a view wrapped by @role_required(role)
RoleRequest(session, role, value) ==
    /\ ret' = [op |-> "role_required", arg |-> role,
               user |-> current_user(session),
               value |-> value,
               call |-> role_required(role, current_user(session), value)]
    /\ UNCHANGED <<store, nextId, pending, open, created>>

(***************************************************************************)
(* Inputs                                                                  *)
(***************************************************************************)
RoleArgs == DOMAIN ROLES \cup {"superuser"}
PermArgs == {"view", "edit", "delete", "manage_users", "view_audit", "fly"}
Values == {"page", "deleted"}
Sessions == {None} \cup {Session(id) : id \in UserIds}
ReadFaults == {"none", "execute"}
WriteFaults == {"none", "execute", "commit"}

(***************************************************************************)
(* Spec: the account operations, called one after another, with            *)
(* update_own_password in its two steps so that other calls fall between   *)
(* its SELECT and its UPDATE.  The store raises no error here.             *)
(***************************************************************************)
AccountRoles == {"viewer", "admin", "superuser"}

AuthenticateUser ==
    \E i \in Idents, p \in Passwords : authenticate_user(i, p, "none")
CreateUser ==
    \E u \in Idents, e \in Idents, p \in Passwords, r \in AccountRoles :
        create_user(u, e, p, r, "none")
UpdateUserPassword ==
    \E id \in UserIds, p \in Passwords : update_user_password(id, p, "none")
ToggleUserStatus == \E id \in UserIds : toggle_user_status(id, "none")
UpdateUserRole ==
    \E id \in UserIds, r \in AccountRoles : update_user_role(id, r, "none")
UpdateOwnPasswordSelect ==
    \E id \in UserIds, c \in Passwords, n \in Passwords :
        update_own_password_select(1, id, c, n, "none")
UpdateOwnPasswordUpdate == update_own_password_update(1, "none")

Next ==
    \/ AuthenticateUser
    \/ CreateUser
    \/ UpdateUserPassword
    \/ ToggleUserStatus
    \/ UpdateUserRole
    \/ UpdateOwnPasswordSelect
    \/ UpdateOwnPasswordUpdate

Spec == Init /\ [][Next]_vars

(***************************************************************************)
(* SpecConc: threads inside update_own_password at the same time, with     *)
(* update_user_password and toggle_user_status running between their       *)
(* steps, on one account.                                                  *)
(***************************************************************************)
ConnRoles == {"viewer", "superuser"}

ConcCreateUser ==
    \E p \in Passwords, r \in ConnRoles :
        create_user("alice", "alice@x.com", p, r, "none")
ConcUpdateUserPassword ==
    \E id \in UserIds, p \in Passwords : update_user_password(id, p, "none")
ConcToggleUserStatus == \E id \in UserIds : toggle_user_status(id, "none")
ConcUpdateOwnPasswordSelect ==
    \E t \in Threads, id \in UserIds, c \in Passwords, n \in Passwords :
        update_own_password_select(t, id, c, n, "none")
ConcUpdateOwnPasswordUpdate ==
    \E t \in Threads : update_own_password_update(t, "none")

NextConc ==
    \/ ConcCreateUser
    \/ ConcUpdateUserPassword
    \/ ConcToggleUserStatus
    \/ ConcUpdateOwnPasswordSelect
    \/ ConcUpdateOwnPasswordUpdate

SpecConc == Init /\ [][NextConc]_vars

(***************************************************************************)
(* SpecConn: every operation that opens a store connection, with the       *)
(* store raising an error from execute, fetchone or commit.                *)
(***************************************************************************)
ConnLoadUser == \E id \in UserIds, f \in ReadFaults : load_user(id, f)
ConnAuthenticateUser ==
    \E p \in Passwords, f \in ReadFaults : authenticate_user("alice", p, f)
ConnCreateUser ==
    \E r \in ConnRoles, f \in WriteFaults :
        create_user("alice", "alice@x.com", "pw1", r, f)
ConnUpdateUserPassword ==
    \E id \in UserIds, p \in Passwords, f \in WriteFaults :
        update_user_password(id, p, f)
ConnGetAllUsers == \E f \in ReadFaults : get_all_users(f)
ConnToggleUserStatus ==
    \E id \in UserIds, f \in WriteFaults : toggle_user_status(id, f)
ConnUpdateUserRole ==
    \E id \in UserIds, r \in ConnRoles, f \in WriteFaults :
        update_user_role(id, r, f)
ConnUpdateLastLogin ==
    \E id \in UserIds, f \in WriteFaults : update_last_login(id, f)
ConnGetUserProfile ==
    \E id \in UserIds, f \in ReadFaults : get_user_profile(id, f)
ConnUpdateOwnPasswordSelect ==
    \E t \in Threads, id \in UserIds, c \in Passwords, f \in ReadFaults :
        update_own_password_select(t, id, c, "pw1", f)
ConnUpdateOwnPasswordUpdate ==
    \E t \in Threads, f \in WriteFaults : update_own_password_update(t, f)

NextConn ==
    \/ ConnLoadUser
    \/ ConnAuthenticateUser
    \/ ConnCreateUser
    \/ ConnUpdateUserPassword
    \/ ConnGetAllUsers
    \/ ConnToggleUserStatus
    \/ ConnUpdateUserRole
    \/ ConnUpdateLastLogin
    \/ ConnGetUserProfile
    \/ ConnUpdateOwnPasswordSelect
    \/ ConnUpdateOwnPasswordUpdate

SpecConn == Init /\ [][NextConn]_vars

(***************************************************************************)
(* SpecGuard: requests to views wrapped by the two decorators, by          *)
(* sessions of the users in the store and by requests with no session.     *)
(***************************************************************************)
GuardCreateUser ==
    \E u \in Idents, r \in RoleArgs : create_user(u, u, "pw1", r, "none")
GuardUpdateUserRole ==
    \E id \in UserIds, r \in RoleArgs : update_user_role(id, r, "none")
GuardLoadUser == \E id \in UserIds : load_user(id, "none")
PermissionRequired ==
    \E s \in Sessions, p \in PermArgs, v \in Values :
        PermissionRequest(s, p, v)
RoleRequired ==
    \E s \in Sessions, r \in RoleArgs, v \in Values : RoleRequest(s, r, v)

NextGuard ==
    \/ GuardCreateUser
    \/ GuardUpdateUserRole
    \/ GuardLoadUser
    \/ PermissionRequired
    \/ RoleRequired

SpecGuard == Init /\ [][NextGuard]_vars

(***************************************************************************)
(* SpecLegacy: the same requests over a table that was filled before       *)
(* auth.py ran.  usuarios is created and filled outside auth.py, so it may *)
(* hold a row whose role is no key of ROLES, the case                      *)
(* ROLES.get(self.role, {}) is written for.                                *)
(***************************************************************************)
LegacyRow ==
    NewRow("root", "root@x.com", generate_password_hash("pw1"), "operator")

InitLegacy ==
    /\ store = (1 :> LegacyRow)
    /\ nextId = 2
    /\ pending = [t \in Threads |-> None]
    /\ open = 0
    /\ created = <<>>
    /\ ret = [op |-> "init"]

SpecLegacy == InitLegacy /\ [][NextGuard]_vars

(***************************************************************************)
(* Properties                                                              *)
(***************************************************************************)
\* the permission lists of ROLES, read as sets
PermissionSet(role) ==
    CASE role = "viewer" -> {"view"}
      [] role = "editor_v2" -> {"view", "edit"}
      [] role = "editor" -> {"view", "edit", "delete"}
      [] role = "admin" ->
            {"view", "edit", "delete", "manage_users", "view_audit"}
      [] OTHER -> {}

GuardRet(op) == ret.op = op /\ is_authenticated(ret.user)

\* C1: for an authenticated principal, a view wrapped by
\* permission_required(p) is invoked exactly when p is in the permission set
\* of the principal's role; invoked, its return value comes back unchanged;
\* not invoked, the caller gets a redirect to index and a message naming p.
\* A viewer is denied "delete" and an editor is allowed.
C1_PermissionGuard ==
    GuardRet("permission_required") =>
        LET allowed == ret.arg \in PermissionSet(ret.user.role)
            call == ret.call
        IN  /\ InList("f", call.events) <=> allowed
            /\ allowed => call.outcome = "invoked" /\ call.result = ret.value
            /\ ~allowed =>
                /\ call.outcome = "denied"
                /\ call.result = [redirect |-> "index"]
                /\ call.flash.category = "error"
                /\ call.flash.message[2] = ret.arg
            /\ ret.arg = "delete" /\ ret.user.role = "viewer" =>
                call.outcome = "denied"
            /\ ret.arg = "delete" /\ ret.user.role = "editor" =>
                call.outcome = "invoked"

C1_ViewerDeniedDelete ==
    /\ GuardRet("permission_required")
    /\ ret.user.role = "viewer"
    /\ ret.arg = "delete"
    /\ ret.call.outcome = "denied"
    /\ ret.call.flash.message[2] = "delete"

\* C2: for an authenticated principal, a view wrapped by role_required(r) is
\* invoked exactly when the principal's role is r or is "admin"; an admin
\* passes whatever r is, also an r that is no key of ROLES.
C2_RoleGuard ==
    GuardRet("role_required") =>
        /\ InList("f", ret.call.events) <=>
              (ret.user.role = ret.arg \/ ret.user.role = "admin")
        /\ ret.user.role = "admin" =>
              ret.call.outcome = "invoked" /\ ret.call.result = ret.value

C2_AdminPassesUnknownRole ==
    /\ GuardRet("role_required")
    /\ ret.user.role = "admin"
    /\ ret.arg \notin DOMAIN ROLES
    /\ ret.call.outcome = "invoked"

\* C3: for a request with no authenticated principal, a view wrapped by
\* either decorator is not invoked, and the not-authenticated answer is
\* produced before has_permission or role is read.
C3_UnauthenticatedShortCircuit ==
    (/\ ret.op \in {"permission_required", "role_required"}
     /\ ~is_authenticated(ret.user))
    => (/\ ret.call.events = <<"login_required">>
        /\ ret.call.outcome = "unauthorized"
        /\ ret.call.result = [redirect |-> "login"])

C3_AnonymousRequest ==
    /\ ret.op = "role_required"
    /\ ret.user = Anonymous
    /\ ret.arg \notin DOMAIN ROLES
    /\ ret.call.outcome = "unauthorized"

\* C5: in every store state, has_permission(p) on the principal loaded for
\* a user is (p is in the permission set of ROLES for the user's role); for
\* a role that is no key of ROLES it is False for every p and get_role_name
\* is "Desconocido".
C5_EffectivePermissions ==
    \A id \in DOMAIN store :
        LET user == LoadUserResult(id)
        IN  /\ user # None
            /\ user.role = store[id].role
            /\ \A p \in PermArgs :
                  has_permission(user, p) <=> p \in PermissionSet(store[id].role)
            /\ store[id].role \notin DOMAIN ROLES =>
                  /\ \A p \in PermArgs : ~has_permission(user, p)
                  /\ get_role_name(user) = "Desconocido"
            /\ store[id].role \in DOMAIN ROLES =>
                  get_role_name(user) = ROLES[store[id].role].name

C5_UnknownRoleLoaded ==
    /\ ret.op = "load_user"
    /\ ret.result # None
    /\ ret.result.role \notin DOMAIN ROLES
    /\ get_role_name(ret.result) = "Desconocido"

\* C6: when role_required(r) denies a principal, the view is not invoked and
\* the caller gets the redirect to index with a message, for every r,
\* also an r that is no key of ROLES: the denial never raises.
C6_RoleDenialNeverRaises ==
    GuardRet("role_required") /\ RoleMismatch(ret.user, ret.arg) =>
        /\ ret.call.outcome = "denied"
        /\ ret.call.result = [redirect |-> "index"]

\* the identifier is the username or the email of row id
Names(id, ident) == store[id].username = ident \/ store[id].email = ident

\* C4: authenticate_user(identifier, password) returns a principal exactly
\* when one single active row has username or email equal to identifier and
\* password verifies against that row's hash; with no match, with more than
\* one active match, or with an inactive row, it returns None.
C4_AuthenticateIffUniqueMatch ==
    ret.op = "authenticate_user" =>
        LET rows == {id \in DOMAIN store :
                        Names(id, ret.username_or_email) /\ store[id].activo}
        IN  ret.result # None <=>
                \E id \in rows :
                    /\ rows = {id}
                    /\ check_password_hash(store[id].password_hash,
                                           ret.password)

\* C7: a mutation that fails leaves the store as it was: update_user_role
\* with a role outside ROLES raises and the row keeps its role; create_user
\* with a role outside ROLES or with a username or email already present
\* raises and adds no row; update_own_password with an unknown id or a wrong
\* current password raises and the row keeps its hash.
C7_FailedMutationKeepsStore ==
    [][/\ ret'.op = "update_user_role" /\ ret'.new_role \notin DOMAIN ROLES
            => ret'.raised # "none" /\ store' = store
       /\ ret'.op = "create_user"
          /\ \/ ret'.role \notin DOMAIN ROLES
             \/ \E id \in DOMAIN store :
                    \/ store[id].username = ret'.username
                    \/ store[id].email = ret'.email
            => ret'.raised # "none" /\ store' = store
       /\ ret'.op = "update_own_password" /\ ret'.step = "select"
          /\ \/ ret'.user_id \notin DOMAIN store
             \/ ~check_password_hash(store[ret'.user_id].password_hash,
                                     ret'.current_password)
            => ret'.raised # "none" /\ store' = store
       /\ ret'.op \in {"update_user_role", "create_user",
                       "update_own_password"}
          /\ ret'.raised # "none"
            => store' = store]_vars

C7_InvalidRoleRejected ==
    /\ ret.op = "update_user_role"
    /\ ret.new_role \notin DOMAIN ROLES
    /\ ret.user_id \in DOMAIN store
    /\ ret.raised # "none"
    /\ store[ret.user_id].role \in DOMAIN ROLES

\* C8: every connection an operation opens is closed when the operation
\* exits, on every exit path, a store error included: after completed calls
\* the only connections open belong to calls still in progress.
C8_ConnectionsClosed == open = InProgress

\* what authenticate_user(ident, password) must return for the row that
\* create_user made as id, by the round trip
RoundTrip(id, password) ==
    IF password = created[id].password
        THEN User(id, created[id].username, created[id].email,
                  created[id].role)
        ELSE None

\* C9, as stated: after create_user(u, e, p, role) succeeds, and while no
\* call has changed that user's password, role or activo,
\* authenticate_user(u, p) and authenticate_user(e, p) return the principal
\* with the id create_user returned and with u, e and role, and
\* authenticate_user(u, q) with q # p returns None.
C9_RoundTrip ==
    ret.op = "authenticate_user" =>
        \A id \in DOMAIN created :
            ret.username_or_email \in {created[id].username, created[id].email}
                => ret.result = RoundTrip(id, ret.password)

\* no other active row has the identifier as its username or email
OnlyMatch(id, ident) ==
    \A other \in DOMAIN store \ {id} :
        ~(store[other].activo /\ Names(other, ident))

\* C9, amended: the round trip holds provided no other active row has the
\* identifier used (u or e) as its username or email.
C9_RoundTripUnambiguous ==
    ret.op = "authenticate_user" =>
        \A id \in DOMAIN created :
            /\ ret.username_or_email \in
                  {created[id].username, created[id].email}
            /\ OnlyMatch(id, ret.username_or_email)
            => ret.result = RoundTrip(id, ret.password)

C9_EmailAliasAuthenticates ==
    /\ ret.op = "authenticate_user"
    /\ Cardinality(DOMAIN store) > 1
    /\ \E id \in DOMAIN created :
          /\ ret.username_or_email = created[id].email
          /\ ret.username_or_email # created[id].username
          /\ OnlyMatch(id, ret.username_or_email)
          /\ ret.result = User(id, created[id].username, created[id].email,
                               created[id].role)

\* C10: update_own_password overwrites the stored hash only when
\* current_password verifies against the hash stored at the moment of the
\* overwrite, whatever update_own_password, update_user_password and
\* toggle_user_status calls run at the same time.
C10_OverwriteOnlyIfCurrentVerifies ==
    [][\A t \in Threads :
          /\ pending[t] # None
          /\ pending'[t] = None
          /\ ret'.op = "update_own_password"
          /\ ret'.step = "update"
          /\ ret'.raised = "none"
          => check_password_hash(store[pending[t].user_id].password_hash,
                                 pending[t].current_password)]_vars

====
